---- MODULE Spec2Model ----
(***************************************************************************)
(* Model of components/model_card/model_card.js: the metric formatter, the *)
(* card markup and its parse into a tree, the handler wiring, the          *)
(* selection action, and the teardown closure.                             *)
(*                                                                         *)
(* JavaScript values are records [t, num, den, s]:                         *)
(*   t = "undefined" | "null" | "number" | "string"                        *)
(*   a number is the rational num/den; den = 0 stands for NaN              *)
(*   a string is the sequence s of its lexemes: single characters, and     *)
(*   whole tags ("<div>", "</div>", ...) where the text carries markup.    *)
(* Number() reads signed decimal literals (no exponent, hex or Infinity);  *)
(* the white space the template puts around interpolated text is left out. *)
(***************************************************************************)
EXTENDS Integers, Sequences

VARIABLES
  inst,        \* per call of the component function: status, key, data, mount
               \* point, parsed tree, whether the handlers were attached
  children,    \* per mount point: the wrapper nodes under it, in order
  calls,       \* the host callbacks called so far, in order
  lastOp,      \* the operation that ran last and what it did
  pureOp,      \* which pure function the formatter specification applies
  fmtValue,    \* formatter input: the raw metric value
  fmtFormat,   \* formatter input: the format kind
  fmtResult,   \* formatter outcome, [done, threw, str]
  renderIn,    \* metrics sequence handed to the rendering pass
  renderOut    \* [done, threw, rows]: the body rows of the parsed tree

cardVars == <<inst, children, calls, lastOp>>

pureVars == <<pureOp, fmtValue, fmtFormat, fmtResult, renderIn, renderOut>>

vars == <<inst, children, calls, lastOp,
          pureOp, fmtValue, fmtFormat, fmtResult, renderIn, renderOut>>

----------------------------------------------------------------------------
(* JavaScript values *)

Undefined == [t |-> "undefined", num |-> 0, den |-> 1, s |-> <<>>]

Null == [t |-> "null", num |-> 0, den |-> 1, s |-> <<>>]

JsNum(n, d) == [t |-> "number", num |-> n, den |-> d, s |-> <<>>]

JsStr(str) == [t |-> "string", num |-> 0, den |-> 1, s |-> str]

NaN == JsNum(0, 0)

IsNullish(v) == v.t \in {"undefined", "null"}

\* value ?? dflt
Coalesce(v, dflt) == IF IsNullish(v) THEN dflt ELSE v

Abs(n) == IF n < 0 THEN -n ELSE n

RECURSIVE Pow10(_)
Pow10(k) == IF k = 0 THEN 1 ELSE 10 * Pow10(k - 1)

RECURSIVE Gcd(_, _)
Gcd(a, b) == IF b = 0 THEN a ELSE Gcd(b, a % b)

RECURSIVE IsPow2(_)
IsPow2(n) == IF n = 1 THEN TRUE ELSE IF n % 2 # 0 THEN FALSE ELSE IsPow2(n \div 2)

DigitChars == <<"0", "1", "2", "3", "4", "5", "6", "7", "8", "9">>

IsDigit(c) == \E i \in 1..10 : DigitChars[i] = c

DigitVal(c) == (CHOOSE i \in 1..10 : DigitChars[i] = c) - 1

RECURSIVE NatToChars(_)
NatToChars(n) ==
  IF n < 10 THEN <<DigitChars[n + 1]>>
  ELSE NatToChars(n \div 10) \o <<DigitChars[(n % 10) + 1]>>

\* the low `width` decimal digits of n, leading zeros kept
RECURSIVE PadDigits(_, _)
PadDigits(n, width) ==
  IF width = 0 THEN <<>>
  ELSE PadDigits(n \div 10, width - 1) \o <<DigitChars[(n % 10) + 1]>>

RECURSIVE CharsToNat(_)
CharsToNat(cs) ==
  IF cs = <<>> THEN 0
  ELSE 10 * CharsToNat(SubSeq(cs, 1, Len(cs) - 1)) + DigitVal(cs[Len(cs)])

AllDigits(cs) == \A i \in 1..Len(cs) : IsDigit(cs[i])

\* The double that holds the rational num/den holds it exactly when the
\* reduced denominator is a power of two (magnitudes here are far below 2^53).
ExactDouble(x) ==
  x.num = 0 \/ IsPow2(x.den \div Gcd(Abs(x.num), x.den))

----------------------------------------------------------------------------
(* Number(value), String(value), Number.prototype.toFixed *)

RECURSIVE TrimLeft(_)
TrimLeft(cs) ==
  IF cs # <<>> /\ cs[1] = " " THEN TrimLeft(Tail(cs)) ELSE cs

RECURSIVE TrimRight(_)
TrimRight(cs) ==
  IF cs # <<>> /\ cs[Len(cs)] = " "
  THEN TrimRight(SubSeq(cs, 1, Len(cs) - 1)) ELSE cs

DotAt(cs) == IF \E i \in 1..Len(cs) : cs[i] = "."
             THEN CHOOSE i \in 1..Len(cs) :
                    cs[i] = "." /\ \A j \in 1..(i - 1) : cs[j] # "."
             ELSE 0

\* StringToNumber on an unsigned StrDecimalLiteral: digits [. digits] | . digits
UnsignedToNumber(cs, sign) ==
  LET dot  == DotAt(cs)
      ip   == IF dot = 0 THEN cs ELSE SubSeq(cs, 1, dot - 1)
      fp   == IF dot = 0 THEN <<>> ELSE SubSeq(cs, dot + 1, Len(cs))
  IN IF AllDigits(ip) /\ AllDigits(fp) /\ Len(ip) + Len(fp) > 0
     THEN JsNum(sign * (CharsToNat(ip) * Pow10(Len(fp)) + CharsToNat(fp)),
                Pow10(Len(fp)))
     ELSE NaN

StringToNumber(str) ==
  LET cs == TrimRight(TrimLeft(str))
  IN IF cs = <<>> THEN JsNum(0, 1)
     ELSE IF cs[1] = "-" THEN UnsignedToNumber(Tail(cs), -1)
     ELSE IF cs[1] = "+" THEN UnsignedToNumber(Tail(cs), 1)
     ELSE UnsignedToNumber(cs, 1)

\* Number(v)
ToNumber(v) ==
  CASE v.t = "undefined" -> NaN
    [] v.t = "null"      -> JsNum(0, 1)
    [] v.t = "number"    -> v
    [] v.t = "string"    -> StringToNumber(v.s)

RECURSIVE StripZeros(_)
StripZeros(cs) ==
  IF cs # <<>> /\ cs[Len(cs)] = "0"
  THEN StripZeros(SubSeq(cs, 1, Len(cs) - 1)) ELSE cs

\* k with 10^k = den, for den a power of ten
RECURSIVE Log10(_)
Log10(den) == IF den <= 1 THEN 0 ELSE 1 + Log10(den \div 10)

\* Number::toString for a finite decimal of moderate magnitude: the shortest
\* decimal, no exponent
NumberToString(x) ==
  IF x.den = 0 THEN <<"N", "a", "N">>
  ELSE LET a    == Abs(x.num)
           k    == Log10(x.den)
           frac == StripZeros(PadDigits(a % x.den, k))
       IN (IF x.num < 0 THEN <<"-">> ELSE <<>>)
          \o NatToChars(a \div x.den)
          \o (IF frac = <<>> THEN <<>> ELSE <<".">> \o frac)

\* String(v)
ToString_(v) ==
  CASE v.t = "undefined" -> <<"u", "n", "d", "e", "f", "i", "n", "e", "d">>
    [] v.t = "null"      -> <<"n", "u", "l", "l">>
    [] v.t = "number"    -> NumberToString(v)
    [] v.t = "string"    -> v.s

\* x / k, the quotient as a rational
Divide(x, k) == IF x.den = 0 THEN x ELSE JsNum(x.num, x.den * k)

\* The integers n with n / 10^fd nearest to |x|.  toFixed takes the larger on
\* a tie of the double it is applied to; a decimal tie that the double does
\* not hold exactly falls to either side, depending on the double's error.
NearestScaled(x, fd) ==
  LET n0 == Abs(x.num) * Pow10(fd)
      q  == n0 \div x.den
      r  == n0 % x.den
  IN IF 2 * r < x.den THEN {q}
     ELSE IF 2 * r > x.den THEN {q + 1}
     ELSE IF ExactDouble(x) THEN {q + 1}
     ELSE {q, q + 1}

FixedDigits(n, fd) ==
  NatToChars(n \div Pow10(fd))
  \o (IF fd = 0 THEN <<>> ELSE <<".">> \o PadDigits(n % Pow10(fd), fd))

\* receiver.toFixed(fd): the set of outcomes [threw, str].  A receiver that is
\* not a number has no toFixed method: TypeError.
ToFixed(v, fd) ==
  IF v.t # "number" THEN {[threw |-> TRUE, str |-> <<>>]}
  ELSE IF v.den = 0 THEN {[threw |-> FALSE, str |-> <<"N", "a", "N">>]}
  ELSE {[threw |-> FALSE,
         str |-> (IF v.num < 0 THEN <<"-">> ELSE <<>>) \o FixedDigits(n, fd)] :
          n \in NearestScaled(v, fd)}

----------------------------------------------------------------------------
(* formatMetricValue, lines 36-56 *)

Thousand == 1000

Million == 1000000

Plain(str) == {[threw |-> FALSE, str |-> str]}

\* prefix + outcome + suffix, a throw propagating
Wrap(prefix, outcomes, suffix) ==
  {[threw |-> o.threw,
    str   |-> IF o.threw THEN <<>> ELSE prefix \o o.str \o suffix] :
     o \in outcomes}

\* numValue === 0 (NaN is not)
IsZero(x) == x.den # 0 /\ x.num = 0

\* Math.abs(x) >= k (false for NaN)
AbsAtLeast(x, k) == x.den # 0 /\ Abs(x.num) >= k * x.den

IsFormat(format, kind) == format.t = "string" /\ format.s = <<kind>>

\* like formatPercent, but suppressing whatever rounds to 0.00
formatPercentRoundsToZero(numValue) ==
  IF numValue.den # 0 /\ 200 * Abs(numValue.num) < numValue.den THEN Plain(<<>>)
  ELSE Wrap(<<>>, ToFixed(numValue, 2), <<"%">>)

\* case "PERCENT", lines 42-44
formatPercent(numValue) ==
  IF IsZero(numValue) THEN Plain(<<>>)
  ELSE Wrap(<<>>, ToFixed(numValue, 2), <<"%">>)

\* like formatDollar, but formatting the absolute value
formatDollarAbs(numValue) ==
  LET absValue == [numValue EXCEPT !.num = Abs(@)]
  IN IF IsZero(numValue) THEN Plain(<<"$", "0", ".", "0">>)
     ELSE IF AbsAtLeast(numValue, Million)
       THEN Wrap(<<"$">>, ToFixed(Divide(absValue, Million), 1), <<"M">>)
     ELSE IF AbsAtLeast(numValue, Thousand)
       THEN Wrap(<<"$">>, ToFixed(Divide(absValue, Thousand), 1), <<"K">>)
     ELSE Wrap(<<"$">>, ToFixed(absValue, 1), <<>>)

\* case "DOLLAR", lines 47-52
formatDollar(numValue) ==
  IF IsZero(numValue) THEN Plain(<<"$", "0", ".", "0">>)
  ELSE IF AbsAtLeast(numValue, Million)
    THEN Wrap(<<"$">>, ToFixed(Divide(numValue, Million), 1), <<"M">>)
  ELSE IF AbsAtLeast(numValue, Thousand)
    THEN Wrap(<<"$">>, ToFixed(Divide(numValue, Thousand), 1), <<"K">>)
  ELSE Wrap(<<"$">>, ToFixed(numValue, 1), <<>>)

\* like formatMetricValue, but calling toFixed on the raw value
formatMetricValueRaw(value, format) ==
  CASE IsFormat(format, "STRING") ->
         Plain(ToString_(Coalesce(value, JsStr(<<>>))))
    [] IsFormat(format, "PERCENT") ->
         Wrap(<<>>, ToFixed(value, 2), <<"%">>)
    [] IsFormat(format, "DECIMAL") ->
         ToFixed(value, 2)
    [] IsFormat(format, "DOLLAR") ->
         Wrap(<<"$">>, ToFixed(value, 1), <<>>)
    [] OTHER ->
         Plain(ToString_(Coalesce(value, JsStr(<<>>))))

formatMetricValue(value, format) ==
  LET numValue == ToNumber(Coalesce(value, JsNum(0, 1)))
  IN CASE IsFormat(format, "STRING") ->
            Plain(ToString_(Coalesce(value, JsStr(<<>>))))
       [] IsFormat(format, "PERCENT") -> formatPercent(numValue)
       [] IsFormat(format, "DECIMAL") -> ToFixed(numValue, 2)
       [] IsFormat(format, "DOLLAR") -> formatDollar(numValue)
       [] OTHER ->
            Plain(ToString_(Coalesce(value, JsStr(<<>>))))

----------------------------------------------------------------------------
(* The markup built by string interpolation, lines 58-102 *)

\* a || b
JsTruthy(v) ==
  CASE v.t = "undefined" -> FALSE
    [] v.t = "null"      -> FALSE
    [] v.t = "number"    -> v.den # 0 /\ v.num # 0
    [] v.t = "string"    -> v.s # <<>>

JsOr(a, b) == IF JsTruthy(a) THEN a ELSE b

\* Tokens the HTML tokenizer produces.  role names the place of the template
\* that wrote a start tag ("" for a tag that came in with interpolated text).
OpenTag(tag, role, id, cls) ==
  [k |-> "open", tag |-> tag, role |-> role, id |-> id, cls |-> cls, c |-> ""]

CloseTag(tag) ==
  [k |-> "close", tag |-> tag, role |-> "", id |-> <<>>, cls |-> {}, c |-> ""]

Character(c) ==
  [k |-> "text", tag |-> "", role |-> "", id |-> <<>>, cls |-> {}, c |-> c]

\* Interpolated text is not escaped: a tag inside it is tokenized as a tag.
LexemeToken(x) ==
  CASE x = "<div>"   -> OpenTag("div", "", <<>>, {})
    [] x = "<span>"  -> OpenTag("span", "", <<>>, {})
    [] x = "</div>"  -> CloseTag("div")
    [] x = "</span>" -> CloseTag("span")
    [] OTHER         -> Character(x)

Interpolate(str) == [i \in 1..Len(str) |-> LexemeToken(str[i])]

\* one row of metricRowsHtml, lines 62-75
RowHtml(metric, isLast, formattedValue) ==
  LET borderClass == IF isLast THEN {<<"mc-row-last">>} ELSE {}
  IN <<OpenTag("div", "row", <<>>, borderClass),
       OpenTag("span", "label", <<>>, {})>>
     \o Interpolate(ToString_(JsOr(metric.label, JsStr(<<>>))))
     \o <<CloseTag("span"), OpenTag("span", "value", <<>>, {})>>
     \o Interpolate(formattedValue)
     \o <<CloseTag("span"), CloseTag("div")>>

\* metrics.forEach, lines 61-76: the outcomes [threw, toks] once the entries
\* 1..upto have been visited
RECURSIVE metricRowsHtml(_, _)
metricRowsHtml(metrics, upto) ==
  IF upto = 0 THEN {[threw |-> FALSE, toks |-> <<>>]}
  ELSE { IF p.threw \/ f.threw
         THEN [threw |-> TRUE, toks |-> <<>>]
         ELSE [threw |-> FALSE,
               toks  |-> p.toks
                         \o RowHtml(metrics[upto], upto = Len(metrics), f.str)] :
           p \in metricRowsHtml(metrics, upto - 1),
           f \in formatMetricValue(metrics[upto].value, metrics[upto].format) }

\* const cardId = `mc-card-${key}`, line 7
CardId(key) == <<"mc-card-">> \o key

\* the template of lines 81-102 around the rows
CardHtml(m, key, rowToks) ==
  <<OpenTag("div", "card", CardId(key), {<<"mc-card">>}),
    OpenTag("div", "header", <<>>, {}),
    OpenTag("div", "headerRow", <<>>, {}),
    OpenTag("h3", "title", <<>>, {})>>
  \o Interpolate(ToString_(Coalesce(m.name, JsStr(<<>>))))
  \o <<CloseTag("h3"),
       OpenTag("span", "badge", <<>>, {}),
       Character(IF JsTruthy(m.recommended) THEN "filled-star" ELSE "outline-star"),
       CloseTag("span"),
       CloseTag("div"),
       CloseTag("div"),
       OpenTag("div", "body", <<>>, {})>>
  \o rowToks
  \o <<CloseTag("div"), CloseTag("div")>>

----------------------------------------------------------------------------
(* node.innerHTML = html, line 106: the tree builder over div, span, h3 *)

\* A tree is the sequence of its elements in document order; parent is an
\* index into it, 0 for the wrapper node itself.
Element(tok, parent) ==
  [tag |-> tok.tag, role |-> tok.role, id |-> tok.id, cls |-> tok.cls,
   parent |-> parent, text |-> <<>>, props |-> {}]

EmptyParse == [nodes |-> <<>>, stack |-> <<>>]

IsSpecial(tag) == tag \in {"div", "h3"}

\* position in the stack of open elements of the topmost element with this
\* tag, 0 when none is open
TopmostOpen(st, tag) ==
  LET hits == {j \in 1..Len(st.stack) : st.nodes[st.stack[j]].tag = tag}
  IN IF hits = {} THEN 0 ELSE CHOOSE j \in hits : \A h \in hits : h <= j

\* An end tag of a special element pops up to the topmost open element of
\* that name and is ignored when none is open.  Any other end tag walks up
\* the stack and is ignored once it meets a special element.
EndTagPopsTo(st, tag) ==
  LET j == TopmostOpen(st, tag)
  IN IF j = 0 THEN 0
     ELSE IF IsSpecial(tag) THEN j
     ELSE IF \E h \in (j + 1)..Len(st.stack) :
               IsSpecial(st.nodes[st.stack[h]].tag)
          THEN 0
          ELSE j

ParseToken(st, tok) ==
  LET top == IF st.stack = <<>> THEN 0 ELSE st.stack[Len(st.stack)]
  IN CASE tok.k = "open" ->
            [nodes |-> Append(st.nodes, Element(tok, top)),
             stack |-> Append(st.stack, Len(st.nodes) + 1)]
       [] tok.k = "close" ->
            LET j == EndTagPopsTo(st, tok.tag)
            IN IF j = 0 THEN st
               ELSE [st EXCEPT !.stack = SubSeq(st.stack, 1, j - 1)]
       [] tok.k = "text" ->
            IF top = 0 THEN st
            ELSE [st EXCEPT !.nodes[top].text = Append(@, tok.c)]

\* The tokens lo..hi consumed in order from state st.  The range is split in
\* two and mid is bound to the state after the first half as a value, which
\* keeps the evaluation shallow; the order of the tokens is unchanged.
RECURSIVE ParseTokens(_, _, _, _)
ParseTokens(toks, lo, hi, st) ==
  IF lo > hi THEN st
  ELSE IF lo = hi THEN ParseToken(st, toks[lo])
  ELSE CHOOSE out \in
         { ParseTokens(toks, ((lo + hi) \div 2) + 1, hi, mid) :
             mid \in {ParseTokens(toks, lo, (lo + hi) \div 2, st)} } : TRUE

InnerHTML(html) == ParseTokens(html, 1, Len(html), EmptyParse).nodes

\* element children of the element at index n, in document order
RECURSIVE ChildrenFrom(_, _, _)
ChildrenFrom(tree, n, from) ==
  IF from > Len(tree) THEN <<>>
  ELSE (IF tree[from].parent = n THEN <<from>> ELSE <<>>)
       \o ChildrenFrom(tree, n, from + 1)

ChildElements(tree, n) == ChildrenFrom(tree, n, 1)

\* What the body region shows: one record per element child of the body,
\* with the text of that child's first and second element child.
ChildText(tree, n, k) ==
  LET cs == ChildElements(tree, n)
  IN IF Len(cs) >= k THEN tree[cs[k]].text ELSE <<>>

BodyIndex(tree) ==
  IF \E n \in 1..Len(tree) : tree[n].role = "body"
  THEN CHOOSE n \in 1..Len(tree) : tree[n].role = "body"
  ELSE 0

BodyRows(tree) ==
  LET rows == ChildElements(tree, BodyIndex(tree))
  IN [i \in 1..Len(rows) |->
        [label |-> ChildText(tree, rows[i], 1),
         value |-> ChildText(tree, rows[i], 2),
         cls   |-> tree[rows[i]].cls]]

\* the rendering pass of lines 58-106: the outcomes [threw, tree]
RenderCard(m, key) ==
  { IF r.threw THEN [threw |-> TRUE, tree |-> <<>>]
    ELSE [threw |-> FALSE, tree |-> InnerHTML(CardHtml(m, key, r.toks))] :
      r \in metricRowsHtml(m.metrics, Len(m.metrics)) }

----------------------------------------------------------------------------
(* Inputs *)

MaxMant == 4

\* unit values <<num, den>>; a sample number is +/- m * unit, m in 0..MaxMant
Units ==
  { <<1, 1000>>,      \* 0.001 ...: below the two-decimal grid
    <<5, 1000>>,      \* 0.005, 0.015: decimal ties no double holds exactly
    <<125, 1000>>,    \* 0.125, 0.375: ties a double holds exactly
    <<5, 100>>,       \* 0.05, 0.15: one-decimal ties
    <<250, 1>>,       \* 250 ... 1000: the K threshold
    <<350, 1>>,       \* 1050: a tie after the division by 1000
    <<250000, 1>>,    \* 250000 ... 1000000: the M threshold
    <<350000, 1>> }   \* 1050000: a tie after the division by 1000000

SpecialNumbers ==
  { JsNum(99994, 100), JsNum(99995, 100), JsNum(99996, 100),
    JsNum(-99996, 100), JsNum(999949, 1), JsNum(999950, 1),
    JsNum(999999, 1), JsNum(-999999, 1), JsNum(12345, 1000),
    JsNum(1500, 1), JsNum(-1500, 1), JsNum(2500000, 1), NaN }

Numbers ==
  { JsNum(sg * m * u[1], u[2]) : sg \in {-1, 1}, m \in 0..MaxMant, u \in Units }
  \cup SpecialNumbers

Strings ==
  { JsStr(<<>>), JsStr(<<" ">>), JsStr(<<"a", "b">>),
    JsStr(<<"1", "5", "0", "0">>), JsStr(<<"-", "2", ".", "5">>),
    JsStr(<<"1", ".", "0", "0", "5">>), JsStr(<<".", "5">>),
    JsStr(<<"1", "a">>), JsStr(<<"0">>) }

Values == {Undefined, Null} \cup Numbers \cup Strings

KnownFormats == {"STRING", "PERCENT", "DECIMAL", "DOLLAR"}

Formats ==
  { JsStr(<<k>>) : k \in KnownFormats }
  \cup { JsStr(<<"percent">>), JsStr(<<>>), Undefined, Null, JsNum(1, 1) }

MaxMetrics == 2

PlainLabel == JsStr(<<"Cost">>)

EntrySamples ==
  { [label |-> l, value |-> v, format |-> f] :
      l \in {PlainLabel, Undefined},
      v \in {JsNum(0, 1), JsNum(1500, 1)},
      f \in {JsStr(<<"PERCENT">>), JsStr(<<"DOLLAR">>)} }
  \cup { [label |-> Undefined, value |-> Undefined, format |-> Undefined],
         [label |-> JsStr(<<"Accuracy">>), value |-> JsNum(5, 1000),
          format |-> JsStr(<<"PERCENT">>)],
         [label |-> JsStr(<<"a", "b">>), value |-> JsStr(<<"a", "b">>),
          format |-> JsStr(<<"STRING">>)],
         [label |-> JsStr(<<"<", "1">>), value |-> JsNum(1, 1),
          format |-> JsStr(<<"DECIMAL">>)],
         [label |-> JsStr(<<"a", "</div>">>), value |-> JsNum(1, 1),
          format |-> JsStr(<<"DECIMAL">>)],
         [label |-> JsStr(<<"<div>", "a">>), value |-> JsNum(1, 1),
          format |-> JsStr(<<"DECIMAL">>)] }

SeqsUpTo(S, n) == UNION {[1..k -> S] : k \in 0..n}

MetricLists == SeqsUpTo(EntrySamples, MaxMetrics)

----------------------------------------------------------------------------
(* The component function, lines 1-142 *)

Instances == {1, 2}

Parents == {"p1", "p2"}

\* keys over name characters and "."
Keys == { <<"a">>, <<"a", ".", "b">>, <<"a", ".">> }

EmptyRecord ==
  [id |-> Undefined, name |-> Undefined, recommended |-> Undefined,
   metrics |-> <<>>]

NoData == [present |-> FALSE, m |-> EmptyRecord]

Data(id, name, recommended, metrics) ==
  [present |-> TRUE,
   m |-> [id |-> id, name |-> name, recommended |-> recommended,
          metrics |-> metrics]]

ExampleMetrics ==
  << [label |-> JsStr(<<"Accuracy">>), value |-> JsNum(0, 1),
      format |-> JsStr(<<"PERCENT">>)],
     [label |-> JsStr(<<"Cost">>), value |-> JsNum(1500, 1),
      format |-> JsStr(<<"DOLLAR">>)] >>

DataSamples ==
  { NoData,
    Data(JsStr(<<"m1">>), JsStr(<<"Model A">>), JsNum(1, 1), ExampleMetrics),
    Data(JsNum(0, 1), JsStr(<<"Model A">>), Undefined, <<>>),
    Data(Undefined, JsStr(<<"Model B">>), Undefined, <<>>) }

\* const m = data || {}, line 4
DataOrEmpty(data) == IF data.present THEN data.m ELSE EmptyRecord

(* node.querySelector(`#${cardId}`), line 110 *)

IsNameChar(c) == c # "."

IsIdentStart(c) == IsNameChar(c) /\ ~IsDigit(c)

RECURSIVE NameRun(_)
NameRun(cs) ==
  IF cs # <<>> /\ IsNameChar(cs[1]) THEN 1 + NameRun(Tail(cs)) ELSE 0

\* zero or more ".class" after the id
RECURSIVE ParseClasses(_)
ParseClasses(cs) ==
  IF cs = <<>> THEN [ok |-> TRUE, classes |-> {}]
  ELSE IF Len(cs) >= 2 /\ cs[1] = "." /\ IsIdentStart(cs[2])
  THEN LET n    == NameRun(Tail(cs))
           rest == ParseClasses(SubSeq(cs, n + 2, Len(cs)))
       IN [ok |-> rest.ok,
           classes |-> rest.classes \cup {SubSeq(cs, 2, n + 1)}]
  ELSE [ok |-> FALSE, classes |-> {}]

\* "#" name (".class")*: anything else is no selector
ParseSelector(sel) ==
  IF sel = <<>> \/ sel[1] # "#" \/ NameRun(Tail(sel)) = 0
  THEN [ok |-> FALSE, id |-> <<>>, classes |-> {}]
  ELSE LET n   == NameRun(Tail(sel))
           cls == ParseClasses(SubSeq(sel, n + 2, Len(sel)))
       IN [ok |-> cls.ok, id |-> SubSeq(sel, 2, n + 1), classes |-> cls.classes]

Matches(el, p) == el.id = p.id /\ p.classes \subseteq el.cls

\* [threw, el]: SyntaxError on text that is no selector; el is the index of
\* the first match in document order, 0 for null
QuerySelector(tree, sel) ==
  LET p    == ParseSelector(sel)
      hits == {n \in 1..Len(tree) : Matches(tree[n], p)}
  IN IF ~p.ok THEN [threw |-> TRUE, el |-> 0]
     ELSE IF hits = {} THEN [threw |-> FALSE, el |-> 0]
     ELSE [threw |-> FALSE, el |-> CHOOSE n \in hits : \A h \in hits : n <= h]

\* the three style.setProperty calls, lines 113-117
SetProperties(tree, el) ==
  [tree EXCEPT ![el].props =
     {"--mc-card-hover-shadow", "border-radius", "box-shadow"}]

\* parentElement.appendChild(node), line 107
appendChild(childList, node) == Append(childList, node)

\* like removeChild, but detaching the parent's last child
removeLastChild(childList, node) ==
  IF childList = <<>> THEN [threw |-> TRUE, list |-> childList]
  ELSE [threw |-> FALSE, list |-> SubSeq(childList, 1, Len(childList) - 1)]

\* like removeChild, but attaching the node when it is not a child
toggleChild(childList, node) ==
  IF \E k \in 1..Len(childList) : childList[k] = node
  THEN [threw |-> FALSE, list |-> SelectSeq(childList, LAMBDA x : x # node)]
  ELSE [threw |-> FALSE, list |-> Append(childList, node)]

\* parentElement.removeChild(node), line 140: NotFoundError when node is not
\* a child of the parent
removeChild(childList, node) ==
  IF \E k \in 1..Len(childList) : childList[k] = node
  THEN [threw |-> FALSE, list |-> SelectSeq(childList, LAMBDA x : x # node)]
  ELSE [threw |-> TRUE, list |-> childList]

HostCall(i, fn, name, value) ==
  [inst |-> i, fn |-> fn, name |-> name, value |-> value]

\* what the host does with a callback: returns, or throws from one of them
HostOutcomes == {"ok", "setStateValue throws"}

\* like handleSelect, but with the trigger first
handleSelectTriggerFirst(i, m, host) ==
  LET cardId == JsOr(JsOr(m.id, m.name), Null)
  IN [threw |-> host = "setStateValue throws",
      emitted |-> <<HostCall(i, "setTriggerValue", "clicked", cardId),
                    HostCall(i, "setStateValue", "selected", cardId)>>]

\* handleSelect, lines 120-124: the callbacks called, in order
handleSelect(i, m, host) ==
  LET cardId == JsOr(JsOr(m.id, m.name), Null)
  IN IF host = "setStateValue throws"
     THEN [threw |-> TRUE,
           emitted |-> <<HostCall(i, "setStateValue", "selected", cardId)>>]
     ELSE [threw |-> FALSE,
           emitted |-> <<HostCall(i, "setStateValue", "selected", cardId),
                         HostCall(i, "setTriggerValue", "clicked", cardId)>>]

NoEffect == [threw |-> FALSE, emitted |-> <<>>]

\* cardElement.onclick, line 127 (set only inside if (cardElement))
onclick(i, c, host) ==
  IF c.wired THEN handleSelect(i, DataOrEmpty(c.data), host) ELSE NoEffect

\* cardElement.onkeydown, lines 130-135: [prevented, threw, emitted]
onkeydown(i, c, eKey, host) ==
  IF c.wired /\ (eKey = "Enter" \/ eKey = " ")
  THEN LET r == handleSelect(i, DataOrEmpty(c.data), host)
       IN [prevented |-> TRUE, threw |-> r.threw, emitted |-> r.emitted]
  ELSE [prevented |-> FALSE, threw |-> FALSE, emitted |-> <<>>]

EventKeys == {"Enter", " ", "Tab"}

\* the activations that reach the host are capped
MaxSelections == 2

Selections(log) == Len(SelectSeq(log, LAMBDA c : c.fn = "setStateValue"))

NotCalled ==
  [status |-> "new", key |-> <<>>, data |-> NoData, parent |-> "",
   tree |-> <<>>, wired |-> FALSE]

NoOp ==
  [op |-> "none", inst |-> 0, eKey |-> "",
   prevented |-> FALSE, threw |-> FALSE, emitted |-> <<>>]

NotDone == [done |-> FALSE, threw |-> FALSE, str |-> <<>>]

NotRendered == [done |-> FALSE, threw |-> FALSE, rows |-> <<>>]

CardInit ==
  /\ inst = [i \in Instances |-> NotCalled]
  /\ children = [p \in Parents |-> <<>>]
  /\ calls = <<>>
  /\ lastOp = NoOp

PureIdle ==
  /\ pureOp = "none"
  /\ fmtValue = Undefined
  /\ fmtFormat = Undefined
  /\ fmtResult = NotDone
  /\ renderIn = <<>>
  /\ renderOut = NotRendered

Init == CardInit /\ PureIdle

\* One call of the exported function, lines 1-141; the calls are numbered in
\* the order the host makes them.  A throw from the
\* rendering pass leaves nothing attached; a throw from querySelector comes
\* after appendChild, so the wrapper stays attached and no teardown closure
\* is returned.
Mount(i, p, key, data) ==
  /\ inst[i].status = "new"
  /\ \A j \in Instances : j < i => inst[j].status # "new"
  /\ \E r \in RenderCard(DataOrEmpty(data), key) :
       IF r.threw
       THEN /\ inst' = [inst EXCEPT ![i] =
                 [NotCalled EXCEPT !.status = "failed", !.key = key,
                                   !.data = data, !.parent = p]]
            /\ children' = children
            /\ lastOp' = [NoOp EXCEPT !.op = "mount", !.inst = i, !.threw = TRUE]
       ELSE LET q == QuerySelector(r.tree, <<"#">> \o CardId(key))
                found == ~q.threw /\ q.el # 0
            IN /\ children' = [children EXCEPT ![p] = appendChild(@, i)]
               /\ inst' = [inst EXCEPT ![i] =
                    [status |-> IF q.threw THEN "failed" ELSE "mounted",
                     key    |-> key,
                     data   |-> data,
                     parent |-> p,
                     tree   |-> IF found THEN SetProperties(r.tree, q.el)
                                ELSE r.tree,
                     wired  |-> found]]
               /\ lastOp' = [NoOp EXCEPT !.op = "mount", !.inst = i,
                                         !.threw = q.threw]
  /\ UNCHANGED calls
  /\ UNCHANGED pureVars

\* a card is on screen, or was: events can be dispatched to its element
HasCard(i) == inst[i].tree # <<>>

Click(i, host) ==
  /\ HasCard(i)
  /\ Selections(calls) < MaxSelections
  /\ LET r == onclick(i, inst[i], host)
     IN /\ calls' = calls \o r.emitted
        /\ lastOp' = [op |-> "click", inst |-> i, eKey |-> "",
                      prevented |-> FALSE, threw |-> r.threw,
                      emitted |-> r.emitted]
  /\ UNCHANGED <<inst, children>>
  /\ UNCHANGED pureVars

KeyDown(i, eKey, host) ==
  /\ HasCard(i)
  /\ Selections(calls) < MaxSelections
  /\ LET r == onkeydown(i, inst[i], eKey, host)
     IN /\ calls' = calls \o r.emitted
        /\ lastOp' = [op |-> "keydown", inst |-> i, eKey |-> eKey,
                      prevented |-> r.prevented,
                      threw |-> r.threw, emitted |-> r.emitted]
  /\ UNCHANGED <<inst, children>>
  /\ UNCHANGED pureVars

\* the closure returned at line 139; it exists once the call has returned
Teardown(i) ==
  /\ inst[i].status \in {"mounted", "unmounted"}
  /\ LET r == removeChild(children[inst[i].parent], i)
     IN /\ children' = [children EXCEPT ![inst[i].parent] = r.list]
        /\ inst' = IF r.threw THEN inst
                   ELSE [inst EXCEPT ![i].status = "unmounted"]
        /\ lastOp' = [NoOp EXCEPT !.op = "teardown", !.inst = i,
                                  !.threw = r.threw]
  /\ UNCHANGED calls
  /\ UNCHANGED pureVars

Next ==
  \/ \E i \in Instances, p \in Parents, key \in Keys, data \in DataSamples :
       Mount(i, p, key, data)
  \/ \E i \in Instances, host \in HostOutcomes : Click(i, host)
  \/ \E i \in Instances, eKey \in EventKeys, host \in HostOutcomes :
       KeyDown(i, eKey, host)
  \/ \E i \in Instances : Teardown(i)

Spec == Init /\ [][Next]_vars

----------------------------------------------------------------------------
(* The pure functions applied to every input *)

PureInit ==
  /\ CardInit
  /\ fmtResult = NotDone
  /\ renderOut = NotRendered
  /\ \/ /\ pureOp = "format"
        /\ fmtValue \in Values
        /\ fmtFormat \in Formats
        /\ renderIn = <<>>
     \/ /\ pureOp = "render"
        /\ fmtValue = Undefined
        /\ fmtFormat = Undefined
        /\ renderIn \in MetricLists

Format ==
  /\ pureOp = "format"
  /\ ~fmtResult.done
  /\ \E o \in formatMetricValue(fmtValue, fmtFormat) :
       fmtResult' = [done |-> TRUE, threw |-> o.threw, str |-> o.str]
  /\ UNCHANGED <<pureOp, fmtValue, fmtFormat, renderIn, renderOut>>
  /\ UNCHANGED cardVars

RenderRows ==
  /\ pureOp = "render"
  /\ ~renderOut.done
  /\ \E r \in RenderCard([EmptyRecord EXCEPT !.metrics = renderIn], <<"a">>) :
       renderOut' = [done |-> TRUE, threw |-> r.threw,
                     rows |-> IF r.threw THEN <<>> ELSE BodyRows(r.tree)]
  /\ UNCHANGED <<pureOp, fmtValue, fmtFormat, fmtResult, renderIn>>
  /\ UNCHANGED cardVars

PureNext == Format \/ RenderRows

PureSpec == PureInit /\ [][PureNext]_vars

----------------------------------------------------------------------------
(* Properties *)

Activation(op) ==
  op.op = "click" \/ (op.op = "keydown" /\ op.eKey \in {"Enter", " "})

IsPair(emitted, i) ==
  /\ Len(emitted) = 2
  /\ emitted[1].inst = i /\ emitted[2].inst = i
  /\ emitted[1].fn = "setStateValue" /\ emitted[1].name = "selected"
  /\ emitted[2].fn = "setTriggerValue" /\ emitted[2].name = "clicked"
  /\ emitted[1].value = emitted[2].value

\* C1: every activation (a click, or a keydown of Enter or Space) of a
\* mounted card, whatever its key and data, calls setStateValue("selected", t)
\* and setTriggerValue("clicked", t) once each with one value t.  Stated for
\* the activations during which the host callbacks return.
C1_EveryActivationEmitsBoth ==
  (/\ Activation(lastOp)
   /\ inst[lastOp.inst].status = "mounted"
   /\ ~lastOp.threw)
  => IsPair(lastOp.emitted, lastOp.inst)

IsPresent(v) == ~IsNullish(v)

ExpectedToken(m) ==
  IF IsPresent(m.id) THEN m.id
  ELSE IF IsPresent(m.name) THEN m.name
  ELSE Null

\* C2: the token of every emitted signal is data.id when an id is present,
\* whatever its value, else data.name when a name is present, else null.
C2_TokenPrefersId ==
  \A k \in 1..Len(calls) :
    calls[k].value = ExpectedToken(DataOrEmpty(inst[calls[k].inst].data))

Nodes(childList) == {childList[k] : k \in 1..Len(childList)}

Position(childList, node) ==
  IF node \in Nodes(childList)
  THEN CHOOSE k \in 1..Len(childList) : childList[k] = node
  ELSE 0

\* the child list `after` is `before` with exactly `node` taken out
TakenOut(before, after, node) ==
  /\ Nodes(after) = Nodes(before) \ {node}
  /\ Len(after) = Len(before) - 1
  /\ \A a, b \in Nodes(after) :
       Position(after, a) < Position(after, b)
         <=> Position(before, a) < Position(before, b)

\* C3: the teardown of a mounted instance takes exactly the wrapper node
\* that instance appended out of its mount point; every other mount point,
\* and the status, tree and handlers of every other instance, stay as they
\* were.
C3_TeardownRemovesOwnNodeOnly ==
  [][\A i \in Instances :
       (inst[i].status = "mounted" /\ inst'[i].status = "unmounted")
       => /\ i \in Nodes(children[inst[i].parent])
          /\ TakenOut(children[inst[i].parent], children'[inst[i].parent], i)
          /\ \A p \in Parents \ {inst[i].parent} : children'[p] = children[p]
          /\ \A j \in Instances \ {i} : inst'[j] = inst[j]]_vars

C3_Witness ==
  /\ lastOp.op = "teardown"
  /\ ~lastOp.threw
  /\ inst[lastOp.inst].status = "unmounted"
  /\ \E j \in Instances \ {lastOp.inst} :
       /\ inst[j].status = "mounted"
       /\ inst[j].wired
       /\ inst[j].parent = inst[lastOp.inst].parent
       /\ j \in Nodes(children[inst[j].parent])

Attached(i, ch) == \E p \in Parents : i \in Nodes(ch[p])

\* C4: an instance that was returned is mounted or unmounted, and
\* mounted -> unmounted, taken by the teardown, is its only transition: once
\* unmounted it stays unmounted and its wrapper is never attached again,
\* whatever runs later (a handler, a second teardown); and from mount to
\* teardown the tree, the mount point and the handlers do not change.
C4_OneWayLifecycle ==
  [][\A i \in Instances :
       /\ inst[i].status = "unmounted"
            => /\ inst'[i] = inst[i]
               /\ ~Attached(i, children')
       /\ inst[i].status = "mounted"
            => /\ inst'[i].status \in {"mounted", "unmounted"}
               /\ inst'[i].status = "unmounted"
                    => (lastOp'.op = "teardown" /\ lastOp'.inst = i)
               /\ inst'[i].tree = inst[i].tree
               /\ inst'[i].wired = inst[i].wired
               /\ inst'[i].parent = inst[i].parent
               /\ inst'[i].status = "mounted" => Attached(i, children')]_vars

C4_Witness ==
  /\ lastOp.op = "teardown"
  /\ lastOp.threw
  /\ inst[lastOp.inst].status = "unmounted"
  /\ calls # <<>>

\* what row k of the body is to show for the entry metric
ShowsEntry(row, metric) ==
  /\ row.label = ToString_(JsOr(metric.label, JsStr(<<>>)))
  /\ \E o \in formatMetricValue(metric.value, metric.format) :
       ~o.threw /\ row.value = o.str

\* C5: for every metrics sequence of length n the rendered body holds
\* exactly n rows, and row k shows the label and the formatted value of
\* metrics[k].
C5_RowsFollowMetrics ==
  renderOut.done
  => /\ ~renderOut.threw
     /\ Len(renderOut.rows) = Len(renderIn)
     /\ \A k \in 1..Len(renderIn) : ShowsEntry(renderOut.rows[k], renderIn[k])

IsText(str) == \E n \in 0..20 : DOMAIN str = 1..n

\* C6: the formatter returns a string and does not throw, for every value
\* (absent, null, number, string) and every format (the four kinds, an
\* unknown kind, absent); and rendering metric entries, their label, value or
\* format missing or not, does not throw.
C6_FormatterTotal ==
  /\ fmtResult.done => (~fmtResult.threw /\ IsText(fmtResult.str))
  /\ renderOut.done => ~renderOut.threw

C6_Witness ==
  /\ fmtResult.done
  /\ fmtValue = Undefined
  /\ IsFormat(fmtFormat, "DECIMAL")
  /\ fmtResult.str = <<"0", ".", "0", "0">>

\* a numeric input: a number that is not NaN, or absent/null read as 0
IsNumericInput(v) == IsNullish(v) \/ (v.t = "number" /\ v.den # 0)

NumericOf(v) == IF IsNullish(v) THEN JsNum(0, 1) ELSE v

\* str reads [-]D+.D{fd}; n is the number it shows, scaled by 10^fd
ReadFixed(str, fd) ==
  LET neg  == str # <<>> /\ str[1] = "-"
      body == IF neg THEN Tail(str) ELSE str
      ip   == SubSeq(body, 1, Len(body) - fd - 1)
      fp   == SubSeq(body, Len(body) - fd + 1, Len(body))
      ok   == /\ Len(body) >= fd + 2
              /\ body[Len(body) - fd] = "."
              /\ AllDigits(ip) /\ AllDigits(fp)
  IN [ok |-> ok, neg |-> neg,
      n |-> IF ok THEN CharsToNat(ip) * Pow10(fd) + CharsToNat(fp) ELSE 0]

\* n / 10^fd is num / den to fd decimals: no other multiple of 10^-fd is
\* nearer to it
ToDecimals(n, fd, num, den) ==
  2 * Abs(n * den - Pow10(fd) * Abs(num)) <= den * Pow10(fd)

\* str is prefix, then v / scale to fd decimals with the sign of v, then
\* suffix
ShowsScaled(str, prefix, suffix, v, scale, fd) ==
  /\ Len(str) >= Len(prefix) + Len(suffix)
  /\ SubSeq(str, 1, Len(prefix)) = prefix
  /\ SubSeq(str, Len(str) - Len(suffix) + 1, Len(str)) = suffix
  /\ LET r == ReadFixed(SubSeq(str, Len(prefix) + 1, Len(str) - Len(suffix)), fd)
     IN /\ r.ok
        /\ r.neg <=> v.num < 0
        /\ ToDecimals(r.n, fd, v.num, v.den * scale)

C9_KeydownSelectsIffEnterOrSpace ==
  (lastOp.op = "keydown" /\ inst[lastOp.inst].status = "mounted")
  => /\ lastOp.eKey \in {"Enter", " "} <=> lastOp.emitted # <<>>
     /\ lastOp.prevented <=> lastOp.emitted # <<>>

CountOf(log, fn) == Len(SelectSeq(log, LAMBDA c : c.fn = fn))

TriggerFollowsState(log) ==
  \A k \in 1..Len(log) :
    log[k].fn = "setTriggerValue"
    => /\ k > 1
       /\ log[k - 1].fn = "setStateValue"
       /\ log[k - 1].name = "selected"
       /\ log[k].name = "clicked"
       /\ log[k - 1].inst = log[k].inst
       /\ log[k - 1].value = log[k].value

NoTriggerAfterThrow ==
  (lastOp.threw /\ lastOp.op \in {"click", "keydown"})
  => CountOf(lastOp.emitted, "setTriggerValue") = 0

\* C10: every setTriggerValue("clicked", t) comes right after the
\* setStateValue("selected", t) of the same activation, so the clicked calls
\* never outnumber the selected calls; an activation whose setStateValue
\* throws calls no trigger; mounting and teardown call neither.
C10_SelectedBeforeClicked ==
  /\ [](/\ TriggerFollowsState(calls)
        /\ CountOf(calls, "setTriggerValue") <= CountOf(calls, "setStateValue")
        /\ NoTriggerAfterThrow)
  /\ [][lastOp'.op \in {"mount", "teardown"} => calls' = calls]_vars

C10_Witness ==
  /\ Len(calls) = 3
  /\ calls[3].fn = "setStateValue"
  /\ lastOp.threw
  /\ lastOp.op = "keydown"

====
